---- MODULE Spec2Model ----
(***************************************************************************)
(* Route-to-GTFS conversion: the single-route script (main.py) and the two *)
(* multi-route scripts (multiple_gpx.py, multiple_kml.py).                 *)
(*                                                                         *)
(* Units.  Coordinates are integers in micro-degrees (1e-6 degree), so the *)
(* 5-decimal rounding of the stop key merges ten adjacent values.          *)
(* Distances are millimetres, speeds are held as speed_kmh in units of     *)
(* 1e-4 km/h, times are whole seconds.  Routes run along a meridian (all   *)
(* points of one file share a longitude), where the geodesic distance is   *)
(* proportional to the latitude difference.  NaN is the float not-a-number *)
(* that shapely yields for a coordinate of an empty geometry, and that     *)
(* float(input()) yields for the speed "nan".                              *)
(***************************************************************************)
EXTENDS Integers, Sequences, FiniteSets, TLC

\* ---------------------------------------------------------------- bounds
MaxFiles == 2
MaxPts == 2

\* ------------------------------------------------------------- constants
MmPerUnit == 111
Radius == 300
BaseStartTime == 21600
KeyScale == 10
NaN == -999999

Lats == {0, 4, 700}
Lons == {0, 296}
Speeds == {-36, 0, 36, 72, NaN}
Spacings == {-20000, 0, 20000, 30000}
Flows == {"gpx", "kml", "single"}

\* --------------------------------------------------------------- helpers
Abs(n) == IF n < 0 THEN -n ELSE n

Max2(a, b) == IF a >= b THEN a ELSE b

\* Python floor division a // b for b # 0
FloorDiv(a, b) == IF b > 0 THEN a \div b ELSE (-a) \div (-b)

\* Python true division a / b of a non-negative a, to whole units
TrueDiv(a, b) == IF b > 0 THEN a \div b ELSE -(a \div (-b))

IsNaN(p) == p[1] = NaN \/ p[2] = NaN

\* geopy.distance.geodesic(p, q).meters of two (lon, lat) points, in mm
Geodesic(p, q) == MmPerUnit * Abs(p[2] - q[2])

\* geopy refuses a point with a non-finite coordinate
GeodesicRaises(p, q) == IsNaN(p) \/ IsNaN(q)

RECURSIVE SumGeodesic(_, _)
SumGeodesic(coords, i) ==
    IF i >= Len(coords) THEN 0
    ELSE Geodesic(coords[i], coords[i + 1]) + SumGeodesic(coords, i + 1)

geodesic_length(coords) == SumGeodesic(coords, 1)

\* shapely LineString(points).length: planar length in coordinate units
RECURSIVE SumPlanar(_, _)
SumPlanar(coords, i) ==
    IF i >= Len(coords) THEN 0
    ELSE Abs(coords[i][2] - coords[i + 1][2]) + SumPlanar(coords, i + 1)

LineLength(coords) == SumPlanar(coords, 1)

\* shapely line.interpolate(d) for d = num / den >= 0: the point at planar
\* distance d from the start, the last point when d exceeds the length
RECURSIVE InterpFrom(_, _, _, _)
InterpFrom(coords, k, num, den) ==
    IF k >= Len(coords) THEN coords[Len(coords)]
    ELSE LET seg == Abs(coords[k][2] - coords[k + 1][2])
             dir == IF coords[k + 1][2] >= coords[k][2] THEN 1 ELSE -1
         IN  IF num <= seg * den
             THEN <<coords[k][1], coords[k][2] + dir * (num \div den)>>
             ELSE InterpFrom(coords, k + 1, num - seg * den, den)

Interpolate(coords, num, den) ==
    IF Len(coords) = 0 THEN <<NaN, NaN>> ELSE InterpFrom(coords, 1, num, den)

\* interpolated list of lines 63-67: points at dist_step * i, i = 0..num_stops
InterpolatedList(coords, num_stops) ==
    [i \in 1..(num_stops + 1) |->
        Interpolate(coords, LineLength(coords) * (i - 1), num_stops)]

\* num_stops of the multi-route scripts (clamped to at least 1)
NumStopsMulti(coords, dist) ==
    Max2(FloorDiv(geodesic_length(coords), dist), 1)

\* num_stops of main.py (not clamped)
NumStopsSingle(coords, dist) == FloorDiv(geodesic_length(coords), dist)

\* Python round(x, 5) of a coordinate, half to even, in units of 1e-5 degree
Round5(x) ==
    IF x = NaN THEN NaN
    ELSE LET q == x \div KeyScale
             r == x % KeyScale
         IN  IF 2 * r < KeyScale THEN q
             ELSE IF 2 * r > KeyScale THEN q + 1
             ELSE IF q % 2 = 0 THEN q ELSE q + 1

\* key = (round(coord[1], 5), round(coord[0], 5)) of a (lon, lat) coordinate
Key(coord) == <<Round5(coord[2]), Round5(coord[1])>>

\* equality of two keys as Python compares tuples of distinct float objects:
\* a key holding a NaN equals no key
KeyEq(k1, k2) == k1 = k2 /\ k1[1] # NaN /\ k1[2] # NaN

\* the membership test looks at the most recent entry only
KeyKnownLastOnly(map, key) ==
    Len(map) > 0 /\ KeyEq(map[Len(map)][1], key)

\* key in stop_id_map
KeyKnown(map, key) == \E e \in 1..Len(map) : KeyEq(map[e][1], key)

\* stop_id_map[key]
KeyLookup(map, key) ==
    map[CHOOSE e \in 1..Len(map) : KeyEq(map[e][1], key)][2]

\* ------------------------------------------------------------ formatting
DigitChars == <<"0", "1", "2", "3", "4", "5", "6", "7", "8", "9">>

RECURSIVE NatChars(_)
NatChars(n) ==
    IF n < 10 THEN <<DigitChars[n + 1]>>
    ELSE NatChars(n \div 10) \o <<DigitChars[(n % 10) + 1]>>

\* Python "%d" of an integer
IntChars(n) == IF n < 0 THEN <<"-">> \o NatChars(-n) ELSE NatChars(n)

\* Python f"{n:02d}": the sign counts towards the width
Pad2(n) == IF n >= 0 /\ n < 10 THEN <<"0">> \o NatChars(n) ELSE IntChars(n)

seconds_to_gtfs_time(seconds) ==
    LET hours == seconds \div 3600
        minutes == (seconds % 3600) \div 60
        secs == seconds % 60
    IN  Pad2(hours) \o <<":">> \o Pad2(minutes) \o <<":">> \o Pad2(secs)

\* str(timedelta(seconds=n)) of main.py
TimedeltaStr(n) ==
    LET days == n \div 86400
        rem == n % 86400
        hh == rem \div 3600
        mm == (rem % 3600) \div 60
        ss == rem % 60
        dayPart == IF days = 0 THEN <<>>
                   ELSE IntChars(days) \o <<" ", "d", "a", "y">>
                        \o (IF Abs(days) # 1 THEN <<"s">> ELSE <<>>)
                        \o <<",", " ">>
    IN  dayPart \o IntChars(hh) \o <<":">> \o Pad2(mm) \o <<":">> \o Pad2(ss)

\* f'Stop {stop_id}'
StopName(id) == "Stop " \o ToString(id)

\* ---------------------------------------------------------------- inputs
\* the point sequences a geometry file can hold
PointSeqs ==
    UNION {{[i \in 1..n |-> <<lon, lats[i]>>] : lon \in Lons, lats \in [1..n -> Lats]}
           : n \in 0..MaxPts}

\* an input file: well-formed with its points, or malformed
InputFiles ==
    {[parse_ok |-> TRUE, points |-> p] : p \in PointSeqs}
    \cup {[parse_ok |-> FALSE, points |-> <<>>]}

\* ----------------------------------------------------------------- state
VARIABLES
    flow,               \* which script runs
    pc,                 \* position in the script
    speed_kmh,          \* input, in 1e-4 km/h
    stop_dist,          \* input, in mm
    nfiles,             \* len(gpx_files) / len(kml_files)
    idx,                \* loop index of the per-route loop, 1-based
    points,             \* points of the file being processed
    interpolated_stops, \* resampled coordinates of the current route
    route_stops,        \* stop ids of the current route
    route_stop_coords,  \* (lon, lat) of the current route's stops
    travel_times,       \* cumulative offsets of the current route
    all_stops,
    stop_coords,
    stop_id_map,
    stop_counter,
    routes_data,
    all_shapes,
    all_stop_times,
    transfers,          \* set(transfers), the rows of transfers.txt
    temp_dir,           \* "present" while the directory gtfs_temp exists
    out_files,          \* tables written by the run
    zip_written,        \* gtfs.zip was written by this run
    status,             \* "running", "ok", "failed" (sys.exit(1)), "crashed"
    outcome,            \* history: per file index, how its processing ended
    stop_owner          \* history: per stop list position, the file index
                        \* that was being processed when it was registered

vars == <<flow, pc, speed_kmh, stop_dist, nfiles, idx, points,
          interpolated_stops, route_stops, route_stop_coords, travel_times,
          all_stops, stop_coords, stop_id_map, stop_counter, routes_data,
          all_shapes, all_stop_times, transfers, temp_dir, out_files,
          zip_written, status, outcome, stop_owner>>

runVars == <<flow, speed_kmh, stop_dist, nfiles>>

routeVars == <<points, interpolated_stops, route_stops, route_stop_coords,
               travel_times>>

registryVars == <<all_stops, stop_coords, stop_id_map, stop_counter,
                  stop_owner>>

tableVars == <<routes_data, all_shapes, all_stop_times>>

outputVars == <<transfers, temp_dir, out_files, zip_written, status>>

NoTables ==
    [stops |-> <<>>, routes |-> <<>>, trips |-> <<>>, stop_times |-> <<>>,
     frequencies |-> <<>>, shapes |-> <<>>, transfers |-> {}]

Init ==
    /\ flow \in Flows
    /\ speed_kmh \in Speeds
    /\ stop_dist \in Spacings
    /\ nfiles \in 1..MaxFiles
    /\ (flow = "single" => nfiles = 1)
    /\ pc = IF flow = "single" THEN "read" ELSE "setup"
    /\ idx = 1
    /\ points = <<>>
    /\ interpolated_stops = <<>>
    /\ route_stops = <<>>
    /\ route_stop_coords = <<>>
    /\ travel_times = <<>>
    /\ all_stops = <<>>
    /\ stop_coords = <<>>
    /\ stop_id_map = <<>>
    /\ stop_counter = 1
    /\ routes_data = <<>>
    /\ all_shapes = <<>>
    /\ all_stop_times = <<>>
    /\ transfers = {}
    /\ temp_dir = "absent"
    /\ out_files = NoTables
    /\ zip_written = FALSE
    /\ status = "running"
    /\ outcome = <<>>
    /\ stop_owner = <<>>

\* ------------------------------------------------ pure steps of the code
\* speed_ms = speed_kmh * 1000 / 3600, in mm/s
SpeedMs(kmh) == IF kmh = NaN THEN NaN ELSE (kmh * 100) \div 3600

\* generate_stops_and_times raises: LineString of one point, or a floor
\* division by a zero spacing
ResampleRaises(pts, dist) == IF Len(pts) = 1 THEN TRUE ELSE dist = 0

generate_stops_and_times(pts, dist) ==
    InterpolatedList(pts, NumStopsMulti(pts, dist))

\* calculate_travel_times raises: geodesic of a non-finite point, or a
\* division by a zero speed
TimesRaise(coords, kmh) ==
    IF Len(coords) < 2 THEN FALSE
    ELSE IF SpeedMs(kmh) = 0 THEN TRUE
    ELSE \E i \in 1..(Len(coords) - 1) : GeodesicRaises(coords[i], coords[i + 1])

RECURSIVE CumTimes(_, _, _)
CumTimes(coords, ms, n) ==
    IF n <= 1 THEN <<0>>
    ELSE LET prev == CumTimes(coords, ms, n - 1)
         IN  Append(prev,
                    IF ms = NaN \/ prev[n - 1] = NaN THEN NaN
                    ELSE prev[n - 1]
                         + TrueDiv(Geodesic(coords[n - 1], coords[n]), ms))

calculate_travel_times(coords, kmh) ==
    CumTimes(coords, SpeedMs(kmh), Len(coords))

Min2(a, b) == IF a <= b THEN a ELSE b

\* seconds_to_gtfs_time, and int(seconds) of main.py, raise ValueError on
\* a non-finite float
GtfsTimeRaises(seconds) == seconds = NaN

\* the number of rows the loop over times writes before a time raises
RowsBeforeRaise(n, times) ==
    IF \E k \in 1..n : GtfsTimeRaises(times[k])
    THEN (CHOOSE k \in 1..n :
              /\ GtfsTimeRaises(times[k])
              /\ \A j \in 1..(k - 1) : ~GtfsTimeRaises(times[j])) - 1
    ELSE n

\* rows appended to all_stop_times by lines 150-161
StopTimeRows(trip, stops, times) ==
    [k \in 1..Min2(Len(stops), Len(times)) |->
        [trip_id |-> trip,
         arrival_time |-> seconds_to_gtfs_time(BaseStartTime + times[k]),
         departure_time |-> seconds_to_gtfs_time(BaseStartTime + times[k]),
         stop_id |-> stops[k],
         stop_sequence |-> k]]

\* rows appended to all_shapes by lines 164-170
ShapeRows(shape, pts) ==
    [k \in 1..Len(pts) |->
        [shape_id |-> shape, shape_pt_lat |-> pts[k][2],
         shape_pt_lon |-> pts[k][1], shape_pt_sequence |-> k]]

RouteName(i) == "route" \o ToString(i)

\* tree.query_ball_point(stop_coords[i], r) hits stop_coords[j]
InBall(coords, i, j) ==
    /\ ~IsNaN(coords[i])
    /\ ~IsNaN(coords[j])
    /\ (coords[i][1] - coords[j][1]) * (coords[i][1] - coords[j][1])
       + (coords[i][2] - coords[j][2]) * (coords[i][2] - coords[j][2])
       <= Radius * Radius

\* the ball query without the guard of line 240: a point is in its own ball
TransferSetUnguarded(stops, coords) ==
    IF Len(coords) > 1
    THEN {<<stops[i].stop_id, stops[j].stop_id>> :
            <<i, j>> \in {ij \in (1..Len(coords)) \X (1..Len(coords)) :
                            InBall(coords, ij[1], ij[2])}}
    ELSE {}

\* set(transfers) of lines 234-244
TransferSet(stops, coords) ==
    IF Len(coords) > 1
    THEN {<<stops[i].stop_id, stops[j].stop_id>> :
            <<i, j>> \in {ij \in (1..Len(coords)) \X (1..Len(coords)) :
                            /\ InBall(coords, ij[1], ij[2])
                            /\ ij[1] # ij[2]
                            /\ stops[ij[1]].stop_id # stops[ij[2]].stop_id}}
    ELSE {}

\* KDTree(stop_coords) is built, and the data holds a non-finite value
TreeHasNaN(coords) ==
    Len(coords) > 1 /\ \E i \in 1..Len(coords) : IsNaN(coords[i])

ResetRoute ==
    /\ points' = <<>>
    /\ interpolated_stops' = <<>>
    /\ route_stops' = <<>>
    /\ route_stop_coords' = <<>>
    /\ travel_times' = <<>>

\* the iteration ends (continue, or the end of the loop body)
NextIteration(how) ==
    /\ outcome' = Append(outcome, how)
    /\ idx' = idx + 1
    /\ pc' = "loop"
    /\ ResetRoute

InLoop == pc = "loop" /\ idx <= nfiles

\* ------------------------------------------------ multi-route operations
\* lines 99-103: remove a stale gtfs_temp and create it anew
Setup ==
    /\ pc = "setup"
    /\ temp_dir' = "present"
    /\ pc' = "loop"
    /\ UNCHANGED <<runVars, idx, routeVars, registryVars, tableVars, transfers,
                   out_files, zip_written, status, outcome>>

\* GPX: gpxpy.parse raises on a malformed file, caught at line 179
ParseError ==
    /\ InLoop
    /\ flow = "gpx"
    /\ NextIteration("error")
    /\ UNCHANGED <<runVars, registryVars, tableVars, outputVars>>

\* KML: a malformed file or a file without points is skipped, lines 179-181
\* (process_kml_file returns [] on any parse error)
SkipEmpty ==
    /\ InLoop
    /\ flow = "kml"
    /\ \E f \in InputFiles : ~f.parse_ok \/ Len(f.points) = 0
    /\ NextIteration("skipped")
    /\ UNCHANGED <<runVars, registryVars, tableVars, outputVars>>

\* generate_stops_and_times raises, caught by the per-route except
ResampleError ==
    /\ InLoop
    /\ \E f \in InputFiles :
          /\ f.parse_ok
          /\ flow = "kml" => Len(f.points) > 0
          /\ \/ ResampleRaises(f.points, stop_dist)
             \/ Len(f.points) = 0
    /\ NextIteration("error")
    /\ UNCHANGED <<runVars, registryVars, tableVars, outputVars>>

\* the file is parsed and resampled, lines 119-124
Resample ==
    /\ InLoop
    /\ \E f \in InputFiles :
          /\ f.parse_ok
          /\ flow = "kml" => Len(f.points) > 0
          /\ ~ResampleRaises(f.points, stop_dist)
          /\ points' = f.points
          /\ interpolated_stops' = generate_stops_and_times(f.points, stop_dist)
    /\ route_stops' = <<>>
    /\ route_stop_coords' = <<>>
    /\ pc' = "intern"
    /\ UNCHANGED <<runVars, idx, travel_times, registryVars, tableVars,
                   outputVars, outcome>>

\* a known key overwrites the recorded coordinate (last seen wins)
StopsAfterInternOverwrite(stops, map, counter, coord) ==
    IF ~KeyKnown(map, Key(coord))
    THEN Append(stops, [stop_id |-> counter,
                        stop_name |-> StopName(counter),
                        stop_lat |-> coord[2],
                        stop_lon |-> coord[1]])
    ELSE [stops EXCEPT ![KeyLookup(map, Key(coord))] =
             [@ EXCEPT !.stop_lat = coord[2], !.stop_lon = coord[1]]]

\* all_stops after lines 129-141 ran for coord: a new key appends a Stop
StopsAfterIntern(stops, map, counter, coord) ==
    IF ~KeyKnown(map, Key(coord))
    THEN Append(stops, [stop_id |-> counter,
                        stop_name |-> StopName(counter),
                        stop_lat |-> coord[2],
                        stop_lon |-> coord[1]])
    ELSE stops

\* every interpolated point is appended to stop_coords, known key or not
CoordsAfterInternAlways(coords, map, coord) ==
    Append(coords, <<coord[2], coord[1]>>)

\* stop_coords after lines 129-141 ran for coord: line 139 is inside the
\* branch of a new key
CoordsAfterIntern(coords, map, coord) ==
    IF ~KeyKnown(map, Key(coord))
    THEN Append(coords, <<coord[2], coord[1]>>)
    ELSE coords

\* one iteration of the interning loop, lines 127-144
InternStop ==
    /\ pc = "intern"
    /\ Len(route_stops) < Len(interpolated_stops)
    /\ LET coord == interpolated_stops[Len(route_stops) + 1]
           key == Key(coord)
       IN  /\ all_stops' =
                  StopsAfterIntern(all_stops, stop_id_map, stop_counter, coord)
           /\ stop_coords' = CoordsAfterIntern(stop_coords, stop_id_map, coord)
           /\ IF ~KeyKnown(stop_id_map, key)
              THEN /\ stop_counter' = stop_counter + 1
                   /\ stop_id_map' = Append(stop_id_map, <<key, stop_counter>>)
                   /\ stop_owner' = Append(stop_owner, idx)
                   /\ route_stops' = Append(route_stops, stop_counter)
              ELSE /\ UNCHANGED <<stop_counter, stop_id_map, stop_owner>>
                   /\ route_stops' =
                          Append(route_stops, KeyLookup(stop_id_map, key))
           /\ route_stop_coords' = Append(route_stop_coords, coord)
    /\ UNCHANGED <<runVars, pc, idx, points, interpolated_stops, travel_times,
                   tableVars, outputVars, outcome>>

InternDone == pc = "intern" /\ Len(route_stops) = Len(interpolated_stops)

\* calculate_travel_times raises, caught by the per-route except
TimesError ==
    /\ InternDone
    /\ TimesRaise(route_stop_coords, speed_kmh)
    /\ NextIteration("error")
    /\ UNCHANGED <<runVars, registryVars, tableVars, outputVars>>

\* line 147
CalcTimes ==
    /\ InternDone
    /\ ~TimesRaise(route_stop_coords, speed_kmh)
    /\ travel_times' = calculate_travel_times(route_stop_coords, speed_kmh)
    /\ pc' = "emit"
    /\ UNCHANGED <<runVars, idx, points, interpolated_stops, route_stops,
                   route_stop_coords, registryVars, tableVars, outputVars,
                   outcome>>

\* the rows zip(route_stops, travel_times) yields
ZipLen == Min2(Len(route_stops), Len(travel_times))

\* lines 149-161 raise at the first non-finite arrival time: the rows
\* appended before it stay, the route is given up at line 179
EmitStopTimesError ==
    /\ pc = "emit"
    /\ RowsBeforeRaise(ZipLen, travel_times) < ZipLen
    /\ all_stop_times' =
          all_stop_times
          \o StopTimeRows(idx, route_stops,
                          SubSeq(travel_times, 1,
                                 RowsBeforeRaise(ZipLen, travel_times)))
    /\ NextIteration("error")
    /\ UNCHANGED <<runVars, registryVars, routes_data, all_shapes, outputVars>>

\* lines 149-161: the stop_times rows of the route
EmitStopTimes ==
    /\ pc = "emit"
    /\ RowsBeforeRaise(ZipLen, travel_times) = ZipLen
    /\ all_stop_times' =
          all_stop_times \o StopTimeRows(idx, route_stops, travel_times)
    /\ pc' = "shapes"
    /\ UNCHANGED <<runVars, idx, routeVars, registryVars, routes_data,
                   all_shapes, outputVars, outcome>>

\* lines 163-177: the shape rows and the route record
EmitRoute ==
    /\ pc = "shapes"
    /\ all_shapes' = all_shapes \o ShapeRows(idx, points)
    /\ routes_data' = Append(routes_data,
          [route_id |-> idx, route_name |-> RouteName(idx),
           shape_id |-> idx, stops |-> route_stops])
    /\ NextIteration("ok")
    /\ UNCHANGED <<runVars, registryVars, all_stop_times, outputVars>>

LoopOver == pc = "loop" /\ idx > nfiles

\* multiple_kml.py lines 248-250: no route was processed
ExitNoRoutes ==
    /\ LoopOver
    /\ flow = "kml"
    /\ routes_data = <<>>
    /\ status' = "failed"
    /\ pc' = "exit"
    /\ UNCHANGED <<runVars, idx, routeVars, registryVars, tableVars, transfers,
                   temp_dir, out_files, zip_written, outcome>>

\* lines 192-231: the tables other than transfers.txt
WriteFiles ==
    /\ LoopOver
    /\ flow = "kml" => routes_data # <<>>
    /\ out_files' =
          [out_files EXCEPT
             !.stops = all_stops,
             !.routes = [k \in 1..Len(routes_data) |-> routes_data[k].route_id],
             !.trips = [k \in 1..Len(routes_data) |->
                          [route_id |-> routes_data[k].route_id,
                           trip_id |-> routes_data[k].route_id,
                           shape_id |-> routes_data[k].shape_id]],
             !.stop_times = all_stop_times,
             !.frequencies = [k \in 1..Len(routes_data) |-> routes_data[k].route_id],
             !.shapes = all_shapes]
    /\ pc' = "transfers"
    /\ UNCHANGED <<runVars, idx, routeVars, registryVars, tableVars, transfers,
                   temp_dir, zip_written, status, outcome>>

\* lines 233-245
FindTransfers ==
    /\ pc = "transfers"
    /\ transfers' = TransferSet(all_stops, stop_coords)
    /\ out_files' = [out_files EXCEPT !.transfers = transfers']
    /\ pc' = "zip"
    /\ UNCHANGED <<runVars, idx, routeVars, registryVars, tableVars, temp_dir,
                   zip_written, status, outcome>>

\* KDTree refuses non-finite data: the run ends with an uncaught error
TransfersCrash ==
    /\ pc = "transfers"
    /\ TreeHasNaN(stop_coords)
    /\ status' = "crashed"
    /\ pc' = "exit"
    /\ UNCHANGED <<runVars, idx, routeVars, registryVars, tableVars, transfers,
                   temp_dir, out_files, zip_written, outcome>>

\* lines 247-258: pack gtfs.zip and remove gtfs_temp
ZipFeed ==
    /\ pc = "zip"
    /\ zip_written' = TRUE
    /\ temp_dir' = "absent"
    /\ status' = "ok"
    /\ pc' = "done"
    /\ UNCHANGED <<runVars, idx, routeVars, registryVars, tableVars, transfers,
                   out_files, outcome>>

\* ------------------------------------------------ single-route operations
Crash ==
    /\ status' = "crashed"
    /\ pc' = "exit"

\* main.py lines 24-34: an uncaught parse error, or LineString of one point
SingleReadCrash ==
    /\ pc = "read"
    /\ \E f \in InputFiles : ~f.parse_ok \/ Len(f.points) = 1
    /\ Crash
    /\ UNCHANGED <<runVars, idx, routeVars, registryVars, tableVars, transfers,
                   temp_dir, out_files, zip_written, outcome>>

\* main.py lines 24-34
SingleRead ==
    /\ pc = "read"
    /\ \E f \in InputFiles :
          /\ f.parse_ok
          /\ Len(f.points) # 1
          /\ points' = f.points
    /\ pc' = "resample"
    /\ UNCHANGED <<runVars, idx, interpolated_stops, route_stops,
                   route_stop_coords, travel_times, registryVars, tableVars,
                   outputVars, outcome>>

\* main.py lines 42-46 divide by zero: a zero spacing, or num_stops = 0
SingleResampleRaises(pts, dist) ==
    IF dist = 0 THEN TRUE ELSE NumStopsSingle(pts, dist) = 0

SingleResampleCrash ==
    /\ pc = "resample"
    /\ SingleResampleRaises(points, stop_dist)
    /\ Crash
    /\ UNCHANGED <<runVars, idx, routeVars, registryVars, tableVars, transfers,
                   temp_dir, out_files, zip_written, outcome>>

\* main.py lines 42-49; range(num_stops + 1) is empty for a negative num_stops
SingleInterpolated(pts, dist) ==
    IF NumStopsSingle(pts, dist) < 0 THEN <<>>
    ELSE InterpolatedList(pts, NumStopsSingle(pts, dist))

SingleResample ==
    /\ pc = "resample"
    /\ ~SingleResampleRaises(points, stop_dist)
    /\ interpolated_stops' = SingleInterpolated(points, stop_dist)
    /\ pc' = "times"
    /\ UNCHANGED <<runVars, idx, points, route_stops, route_stop_coords,
                   travel_times, registryVars, tableVars, outputVars, outcome>>

\* main.py line 55 divides by a zero speed
SingleTimesCrash ==
    /\ pc = "times"
    /\ TimesRaise(interpolated_stops, speed_kmh)
    /\ Crash
    /\ UNCHANGED <<runVars, idx, routeVars, registryVars, tableVars, transfers,
                   temp_dir, out_files, zip_written, outcome>>

\* main.py lines 51-55
SingleTimes ==
    /\ pc = "times"
    /\ ~TimesRaise(interpolated_stops, speed_kmh)
    /\ travel_times' = calculate_travel_times(interpolated_stops, speed_kmh)
    /\ pc' = "write"
    /\ UNCHANGED <<runVars, idx, points, interpolated_stops, route_stops,
                   route_stop_coords, registryVars, tableVars, outputVars,
                   outcome>>

\* main.py lines 84-90
SingleStopTimeRows(times) ==
    [k \in 1..Len(times) |->
        [trip_id |-> 1,
         arrival_time |-> TimedeltaStr(times[k]),
         departure_time |-> TimedeltaStr(times[k]),
         stop_id |-> k,
         stop_sequence |-> k]]

\* main.py lines 57-90: int(seconds) raises while stop_times.txt is being
\* written, after agency, stops, routes and trips
SingleWriteCrash ==
    /\ pc = "write"
    /\ flow = "single"
    /\ RowsBeforeRaise(Len(travel_times), travel_times) < Len(travel_times)
    /\ out_files' =
          [out_files EXCEPT
             !.stops = [k \in 1..Len(interpolated_stops) |->
                          [stop_id |-> k, stop_name |-> StopName(k),
                           stop_lat |-> interpolated_stops[k][2],
                           stop_lon |-> interpolated_stops[k][1]]],
             !.routes = <<1>>,
             !.trips = <<[route_id |-> 1, trip_id |-> 1, shape_id |-> 1]>>,
             !.stop_times =
                 SingleStopTimeRows(
                     SubSeq(travel_times, 1,
                            RowsBeforeRaise(Len(travel_times), travel_times)))]
    /\ Crash
    /\ UNCHANGED <<runVars, idx, routeVars, registryVars, tableVars, transfers,
                   temp_dir, zip_written, outcome>>

\* main.py lines 57-103
SingleWrite ==
    /\ pc = "write"
    /\ flow = "single"
    /\ RowsBeforeRaise(Len(travel_times), travel_times) = Len(travel_times)
    /\ out_files' =
          [out_files EXCEPT
             !.stops = [k \in 1..Len(interpolated_stops) |->
                          [stop_id |-> k, stop_name |-> StopName(k),
                           stop_lat |-> interpolated_stops[k][2],
                           stop_lon |-> interpolated_stops[k][1]]],
             !.routes = <<1>>,
             !.trips = <<[route_id |-> 1, trip_id |-> 1, shape_id |-> 1]>>,
             !.stop_times = SingleStopTimeRows(travel_times),
             !.shapes = ShapeRows(1, points)]
    /\ status' = "ok"
    /\ pc' = "done"
    /\ UNCHANGED <<runVars, idx, routeVars, registryVars, tableVars, transfers,
                   temp_dir, zip_written, outcome>>

\* ---------------------------------------------------------- specification
Next ==
    \/ Setup
    \/ ParseError
    \/ SkipEmpty
    \/ ResampleError
    \/ Resample
    \/ InternStop
    \/ TimesError
    \/ CalcTimes
    \/ EmitStopTimesError
    \/ EmitStopTimes
    \/ EmitRoute
    \/ ExitNoRoutes
    \/ WriteFiles
    \/ FindTransfers
    \/ TransfersCrash
    \/ ZipFeed
    \/ SingleReadCrash
    \/ SingleRead
    \/ SingleResampleCrash
    \/ SingleResample
    \/ SingleTimesCrash
    \/ SingleTimes
    \/ SingleWriteCrash
    \/ SingleWrite

Spec == Init /\ [][Next]_vars

\* ------------------------------------------------------------- properties
RunEnded == pc \in {"done", "exit"}

\* the speed and the spacing are both positive
ValidInput == speed_kmh > 0 /\ stop_dist > 0

MultiRoute == flow \in {"gpx", "kml"}

\* the rounded key of a registered Stop, from its recorded coordinate
StopKey(stop) == Key(<<stop.stop_lon, stop.stop_lat>>)

\* C1: at the end of a multi-route run, a route whose processing raised an
\* error has contributed to no aggregate: no Stop registered while it was
\* processed is in the registry or the Stops table, and no StopTimes,
\* Shapes, Routes/Trips or Frequencies row carries its identity.
C1_FailedRouteContributesNothing ==
    (MultiRoute /\ RunEnded) =>
        \A i \in 1..Len(outcome) :
            outcome[i] = "error" =>
                /\ \A k \in 1..Len(all_stops) : stop_owner[k] # i
                /\ \A k \in 1..Len(out_files.stops) : stop_owner[k] # i
                /\ \A k \in 1..Len(all_stop_times) : all_stop_times[k].trip_id # i
                /\ \A k \in 1..Len(all_shapes) : all_shapes[k].shape_id # i
                /\ \A k \in 1..Len(routes_data) : routes_data[k].route_id # i
                /\ \A k \in 1..Len(out_files.frequencies) :
                       out_files.frequencies[k] # i

\* C2: the transfer rows hold each unordered pair of Stop identities at most
\* once: a row (a, b) excludes the row (b, a).  Stated for the runs with a
\* positive speed and spacing.
C2_UnorderedPairOnce ==
    (ValidInput /\ pc \in {"zip", "done"}) =>
        \A t \in transfers : <<t[2], t[1]>> \notin transfers

\* C3: the registry maps rounded keys to identities one-to-one: there is one
\* Stop per key and one key per identity, every interned coordinate of the
\* route in progress resolves to the Stop that owns its key (also a Stop
\* registered by an earlier route), and two interned coordinates have the
\* same identity exactly when their keys are equal.
C3_RegistryOneToOne ==
    /\ \A k1, k2 \in 1..Len(all_stops) :
          /\ KeyEq(StopKey(all_stops[k1]), StopKey(all_stops[k2])) => k1 = k2
          /\ all_stops[k1].stop_id = all_stops[k2].stop_id => k1 = k2
    /\ MultiRoute =>
          \A k1, k2 \in 1..Len(route_stops) :
              (route_stops[k1] = route_stops[k2])
                <=> (k1 = k2 \/ KeyEq(Key(route_stop_coords[k1]),
                                      Key(route_stop_coords[k2])))
    /\ MultiRoute =>
          \A k \in 1..Len(route_stops) :
              /\ \E j \in 1..Len(all_stops) :
                     all_stops[j].stop_id = route_stops[k]
              /\ \A j \in 1..Len(all_stops) :
                    ~IsNaN(route_stop_coords[k]) =>
                        ((all_stops[j].stop_id = route_stops[k])
                           <=> KeyEq(StopKey(all_stops[j]),
                                     Key(route_stop_coords[k])))

\* a later route resolved a coordinate to a Stop that an earlier file
\* registered under a different raw coordinate of the same key
C3_Witness ==
    \E k \in 1..Len(route_stops) :
        /\ route_stops[k] <= Len(all_stops)
        /\ stop_owner[route_stops[k]] < idx
        /\ all_stops[route_stops[k]].stop_lat # route_stop_coords[k][2]

\* C4: a multi-route run in which no route was processed ends in a failure
\* state and leaves no output: no gtfs.zip, no table, no gtfs_temp.  Stated
\* for the runs with a positive speed and spacing.
C4_NoRoutesNoArtifact ==
    (ValidInput /\ MultiRoute /\ RunEnded /\ routes_data = <<>>) =>
        /\ status # "ok"
        /\ ~zip_written
        /\ temp_dir = "absent"
        /\ out_files = NoTables

\* C5: for a route of two or more points and a positive spacing, in every
\* flow, resampling completes and yields max(floor(L / S), 1) + 1 stop
\* coordinates, L the geodesic length of the route.
C5_ResamplingCount ==
    (stop_dist > 0 /\ Len(points) >= 2) =>
        /\ ~(flow = "single" /\ pc = "exit" /\ interpolated_stops = <<>>)
        /\ pc \in {"intern", "emit", "shapes", "times", "write", "done"} =>
              Len(interpolated_stops)
                = Max2(geodesic_length(points) \div stop_dist, 1) + 1

\* C6: every step leaves the registered Stops as they are: no Stop is
\* removed, and the identity, name and recorded coordinate of every
\* registered Stop, its entry of the coordinate list and of the key map stay
\* the same; interning a coordinate whose key a registered Stop already has
\* changes neither the registry nor the identity counter.
C6_RegisteredStopsFrozen ==
    [][/\ Len(all_stops') >= Len(all_stops)
       /\ \A k \in 1..Len(all_stops) :
             /\ all_stops'[k] = all_stops[k]
             /\ stop_coords'[k] = stop_coords[k]
             /\ stop_id_map'[k] = stop_id_map[k]
       /\ (/\ pc = "intern"
           /\ Len(route_stops') = Len(route_stops) + 1
           /\ \E k \in 1..Len(all_stops) :
                 KeyEq(StopKey(all_stops[k]),
                       Key(interpolated_stops[Len(route_stops) + 1])))
          => UNCHANGED <<all_stops, stop_coords, stop_id_map, stop_counter>>
      ]_vars

\* a coordinate was interned onto a Stop recorded with another coordinate
C6_Witness ==
    /\ MultiRoute
    /\ \E k \in 1..Len(route_stops) :
          /\ route_stops[k] <= Len(all_stops)
          /\ ~IsNaN(route_stop_coords[k])
          /\ <<all_stops[route_stops[k]].stop_lon,
               all_stops[route_stops[k]].stop_lat>> # route_stop_coords[k]

\* C7: computed cumulative offsets are as long as the route's stop sequence,
\* start at 0 and never decrease, whatever speed the computation ran with.
\* Stated for the routes resampled with a positive spacing.
C7_OffsetsMonotone ==
    (stop_dist > 0 /\ speed_kmh # NaN /\ travel_times # <<>>) =>
        /\ Len(travel_times)
             = Len(IF flow = "single" THEN interpolated_stops ELSE route_stops)
        /\ travel_times[1] = 0
        /\ \A k \in 1..(Len(travel_times) - 1) :
               travel_times[k] <= travel_times[k + 1]

\* C8: a speed <= 0 produces no schedule and a spacing <= 0 produces no stop
\* sequence: the computation fails and nothing is written from such input.
\* Stated for the files of two or more points.
C8_NonPositiveRejected ==
    /\ (speed_kmh <= 0 /\ speed_kmh # NaN /\ stop_dist > 0) =>
          /\ Len(points) >= 2 => travel_times = <<>>
          /\ all_stop_times = <<>>
          /\ out_files.stop_times = <<>>
    /\ (stop_dist <= 0 /\ Len(points) >= 2) =>
          /\ interpolated_stops = <<>>
          /\ route_stops = <<>>
          /\ travel_times = <<>>
          /\ out_files = NoTables

IsDigit(c) == \E d \in 1..10 : DigitChars[d] = c

DigitVal(c) == (CHOOSE d \in 1..10 : DigitChars[d] = c) - 1

RECURSIVE DigitsVal(_, _)
DigitsVal(t, n) ==
    IF n = 0 THEN 0 ELSE 10 * DigitsVal(t, n - 1) + DigitVal(t[n])

\* t is HH:MM:SS: two or more hour digits, minutes and seconds in 00..59
IsGtfsTime(t) ==
    /\ Len(t) >= 8
    /\ t[Len(t) - 2] = ":"
    /\ t[Len(t) - 5] = ":"
    /\ \A k \in 1..Len(t) : k \notin {Len(t) - 2, Len(t) - 5} => IsDigit(t[k])
    /\ 10 * DigitVal(t[Len(t) - 4]) + DigitVal(t[Len(t) - 3]) <= 59
    /\ 10 * DigitVal(t[Len(t) - 1]) + DigitVal(t[Len(t)]) <= 59

\* the seconds an HH:MM:SS time stands for
GtfsSeconds(t) ==
    3600 * DigitsVal(t, Len(t) - 6)
    + 60 * (10 * DigitVal(t[Len(t) - 4]) + DigitVal(t[Len(t) - 3]))
    + 10 * DigitVal(t[Len(t) - 1]) + DigitVal(t[Len(t)])

StartOfService == <<"0", "6", ":", "0", "0", ":", "0", "0">>

TimeRowOk(row) ==
    /\ IsGtfsTime(row.arrival_time)
    /\ row.departure_time = row.arrival_time
    /\ row.stop_sequence = 1 => row.arrival_time = StartOfService

\* C9: every StopTimes row, of every flow, has an HH:MM:SS arrival time that
\* stands for 06:00:00 plus the stop's cumulative offset (06:00:00 at the
\* first stop of a route), hours not reduced modulo 24, and a departure time
\* equal to the arrival time.  Stated for the runs with a positive speed and
\* spacing.
C9_StopTimesFromEpoch ==
    ValidInput =>
    /\ \A k \in 1..Len(all_stop_times) : TimeRowOk(all_stop_times[k])
    /\ \A k \in 1..Len(out_files.stop_times) : TimeRowOk(out_files.stop_times[k])
    /\ pc = "shapes" =>
          \A k \in 1..Len(travel_times) :
              GtfsSeconds(all_stop_times[Len(all_stop_times)
                                         - Len(travel_times) + k].arrival_time)
                = BaseStartTime + travel_times[k]
    /\ (flow = "single" /\ pc = "done") =>
          \A k \in 1..Len(travel_times) :
              GtfsSeconds(out_files.stop_times[k].arrival_time)
                = BaseStartTime + travel_times[k]

Degenerate(pts) == Len(pts) >= 2 /\ \A k \in 1..Len(pts) : pts[k] = pts[1]

\* C10: a route of two or more identical points, with a positive speed and
\* spacing, does not crash the run: it is resampled to two stop coordinates
\* equal to that point, both interned to one Stop, with travel times 0, 0.
C10_DegenerateRoute ==
    (Degenerate(points) /\ speed_kmh > 0 /\ stop_dist > 0) =>
        /\ status # "crashed"
        /\ pc \in {"intern", "emit", "shapes", "times", "write", "done"} =>
              interpolated_stops = <<points[1], points[1]>>
        /\ pc \in {"emit", "shapes"} =>
              /\ Len(route_stops) = 2
              /\ route_stops[1] = route_stops[2]
        /\ pc \in {"emit", "shapes", "write", "done"} =>
              travel_times = <<0, 0>>

\* ---------------------------------------------------------------- C12
\* C12: once the transfer step of a multi-route run has run, no transfer
\* row has the same Stop identity as its from and its to, and the rows
\* written to transfers.txt are that set; with fewer than 2 registered
\* Stops the set is empty, and the run has not ended with an error of the
\* transfer step.
C12_NoSelfTransfer ==
    MultiRoute =>
        /\ pc \in {"zip", "done"} =>
              /\ \A t \in transfers : t[1] # t[2]
              /\ out_files.transfers = transfers
              /\ Len(all_stops) < 2 => transfers = {}
        /\ Len(all_stops) < 2 => status # "crashed"

\* the transfer step has found Stops within the radius of one another
C12_Witness ==
    /\ MultiRoute
    /\ pc = "zip"
    /\ transfers # {}

\* ---------------------------------------------------------------- C13
\* C13: in every state of a multi-route run all_stops, stop_coords and
\* stop_id_map have stop_counter - 1 entries each; the Stop at position k
\* (counted from 1 here, from 0 in the code) has identity k and the
\* coordinate stored at position k of stop_coords, which is the point the
\* spatial index holds at that position; and the Stops table, once
\* written, is that list, so it lists the identities 1..n in order.
C13_RegistryAligned ==
    MultiRoute =>
        /\ Len(all_stops) = stop_counter - 1
        /\ Len(stop_coords) = stop_counter - 1
        /\ Len(stop_id_map) = stop_counter - 1
        /\ \A k \in 1..Len(all_stops) :
              /\ all_stops[k].stop_id = k
              /\ stop_coords[k] = <<all_stops[k].stop_lat, all_stops[k].stop_lon>>
        /\ pc \in {"transfers", "zip", "done"} =>
              /\ out_files.stops = all_stops
              /\ \A k \in 1..Len(out_files.stops) :
                    out_files.stops[k].stop_id = k

\* a route has failed after registering Stops, and a known key has been
\* met again since
C13_Witness ==
    /\ MultiRoute
    /\ \E i \in 1..Len(outcome) :
          /\ outcome[i] = "error"
          /\ \E k \in 1..Len(stop_owner) : stop_owner[k] = i
    /\ pc = "intern"
    /\ Len(route_stops) > 0
    /\ \E k \in 1..Len(stop_owner) :
          stop_owner[k] < idx /\ route_stops[Len(route_stops)] = k

\* ---------------------------------------------------------------- C14
\* the identities of the Stops table, and of the Routes/Trips tables
StopIds == {out_files.stops[k].stop_id : k \in 1..Len(out_files.stops)}
TripIds == {out_files.trips[k].trip_id : k \in 1..Len(out_files.trips)}
ShapeIds == {out_files.trips[k].shape_id : k \in 1..Len(out_files.trips)}

\* the StopTimes rows of a trip, in file order
RowsOfTrip(trip) ==
    SelectSeq(out_files.stop_times, LAMBDA row : row.trip_id = trip)

\* the rows of a route number its stop sequence 1..n, in traversal order
RouteRowsOk(route) ==
    /\ Len(RowsOfTrip(route.route_id)) = Len(route.stops)
    /\ \A k \in 1..Len(route.stops) :
          /\ RowsOfTrip(route.route_id)[k].stop_sequence = k
          /\ RowsOfTrip(route.route_id)[k].stop_id = route.stops[k]

\* C14: at the end of a multi-route run the written tables are
\* referentially consistent: the Stop identity of every StopTimes row and
\* both identities of every Transfers row are in the Stops table, the trip
\* identity of every StopTimes row and the shape identity of every Shapes
\* row belong to a route of the Routes/Trips tables, and the StopTimes rows
\* of each route carry the stop sequence numbers 1..n, one per position of
\* the route's stop sequence, in traversal order.  Stated for the runs
\* with a positive spacing.
C14_TablesConsistent ==
    (MultiRoute /\ pc = "done" /\ stop_dist > 0) =>
        /\ \A k \in 1..Len(out_files.stop_times) :
              /\ out_files.stop_times[k].stop_id \in StopIds
              /\ out_files.stop_times[k].trip_id \in TripIds
        /\ \A t \in out_files.transfers : t[1] \in StopIds /\ t[2] \in StopIds
        /\ \A k \in 1..Len(out_files.shapes) :
              out_files.shapes[k].shape_id \in ShapeIds
        /\ \A k \in 1..Len(routes_data) :
              /\ routes_data[k].route_id \in TripIds
              /\ RouteRowsOk(routes_data[k])

====
